---- MODULE Spec2Model ----
(***************************************************************************)
(* Model of run_pipeline.py: the three-stage Intake -> Risk -> Review      *)
(* pipeline, its output sanitizer, its stage validators and its artifact   *)
(* store.  A run is a sequential program; every numbered step below is one *)
(* statement group of main() or of the run_*_agent function it calls.      *)
(***************************************************************************)
EXTENDS Integers, Sequences, FiniteSets, TLC

(***************************************************************************)
(* Bounds of the model.                                                    *)
(***************************************************************************)
\* longest `requirements` list a generated Intake payload carries
MaxReqs == 2
\* longest `requirements` list of the Intake payloads a whole run is fed
MaxRunReqs == 1
\* longest `test_cases` list a generated Risk payload carries
MaxTcs == 2
\* most lines of a generated Review document
MaxLines == 5
\* most tokens of a generated raw text
MaxTokens == 7

(***************************************************************************)
(* JSON values as json.loads yields them.  Every value has the same three  *)
(* fields so that any two values can be compared:                          *)
(*   k  the Python type: "dict", "list", "str", "int", "null"              *)
(*      ("none" is a variable that holds nothing yet);                     *)
(*   s  for a str, the words of the string (a substring test for an        *)
(*      identifier is a membership test on the words);                     *)
(*   c  for a dict the key/value pairs in order, for a list the items      *)
(*      (pairs with key "").                                               *)
(***************************************************************************)
NoValue == [k |-> "none", s |-> <<>>, c |-> <<>>]
JNull == [k |-> "null", s |-> <<>>, c |-> <<>>]
JInt == [k |-> "int", s |-> <<>>, c |-> <<>>]
JStr(words) == [k |-> "str", s |-> words, c |-> <<>>]
JList(items) ==
  [k |-> "list", s |-> <<>>,
   c |-> [i \in 1..Len(items) |-> [key |-> "", val |-> items[i]]]]
JDict(pairs) == [k |-> "dict", s |-> <<>>, c |-> pairs]

Range(f) == {f[i] : i \in DOMAIN f}

\* the keys of a dict
Keys(v) == {v.c[i].key : i \in DOMAIN v.c}

\* `x in v` for a string x raises TypeError unless v is a dict, a list or a str
InRaises(v) == v.k \notin {"dict", "list", "str"}

\* `x in v` for a string x: key of a dict, element of a list, substring of a str
py_in(x, v) ==
  CASE v.k = "dict" -> x \in Keys(v)
    [] v.k = "list" -> \E i \in DOMAIN v.c : v.c[i].val = JStr(<<x>>)
    [] v.k = "str" -> x \in Range(v.s)
    [] OTHER -> FALSE

\* `v[x]` for a string x raises TypeError unless v is a dict (KeyError if absent)
SubscriptRaises(v, x) == v.k # "dict" \/ x \notin Keys(v)

\* `v[x]` on a dict that has the key
Subscript(v, x) == v.c[CHOOSE i \in DOMAIN v.c : v.c[i].key = x].val

\* `v.get(...)` raises AttributeError unless v is a dict
GetRaises(v) == v.k # "dict"

\* `v.get(x, default)` on a dict
Get(v, x, default) == IF x \in Keys(v) THEN Subscript(v, x) ELSE default

\* `for e in v` raises TypeError unless v is a dict, a list or a str
IterRaises(v) == v.k \notin {"dict", "list", "str"}

\* the values `for e in v` yields: the items of a list, the keys of a dict,
\* the characters of a str (a character holds no identifier)
Iter(v) ==
  CASE v.k = "list" -> [i \in DOMAIN v.c |-> v.c[i].val]
    [] v.k = "dict" -> [i \in DOMAIN v.c |-> JStr(<<v.c[i].key>>)]
    [] v.k = "str" -> [i \in DOMAIN v.s |-> JStr(<<"c">>)]
    [] OTHER -> <<>>

RECURSIVE Join(_)
Join(words) ==
  IF Len(words) = 0 THEN ""
  ELSE IF Len(words) = 1 THEN words[1]
  ELSE words[1] \o " " \o Join(Tail(words))

\* a value formatted into an f-string
Render(v) ==
  CASE v.k = "str" -> Join(v.s)
    [] v.k = "int" -> "5"
    [] v.k = "null" -> "None"
    [] v.k = "list" -> "[..]"
    [] v.k = "dict" -> "{..}"
    [] OTHER -> "?"

RECURSIVE Flatten(_)
Flatten(seqs) ==
  IF Len(seqs) = 0 THEN <<>> ELSE Head(seqs) \o Flatten(Tail(seqs))

(***************************************************************************)
(* _validate_intake                                                        *)
(***************************************************************************)
\* a validator that asks a fourth subfield of plan_context
PlanContextFieldsWithAssumptions ==
  <<"purpose", "in_scope", "out_of_scope", "assumptions">>

PlanContextFields == <<"purpose", "in_scope", "out_of_scope">>
RequirementFields == <<"req_id", "prd_ref", "ambiguity_flags">>

\* the inner loop of one requirement raises: `field not in req` on a value
\* that is no container, or req.get on a container that is no dict
ReqRaises(req) ==
  \/ InRaises(req)
  \/ /\ \E i \in DOMAIN RequirementFields : ~py_in(RequirementFields[i], req)
     /\ GetRaises(req)

ReqMissingFirstOnly(req) ==
  LET absent == SelectSeq(RequirementFields, LAMBDA f : ~py_in(f, req))
      owner == Render(Get(req, "req_id", JStr(<<"unknown">>)))
  IN  IF Len(absent) = 0 THEN <<>> ELSE <<owner \o "." \o absent[1]>>

\* the identifiers one requirement appends to `missing`
ReqMissing(req) ==
  LET absent == SelectSeq(RequirementFields, LAMBDA f : ~py_in(f, req))
      owner == Render(Get(req, "req_id", JStr(<<"unknown">>)))
  IN  [i \in DOMAIN absent |-> owner \o "." \o absent[i]]

\* lines 133-138: [raised, missing]
PlanContextPart(data) ==
  IF ~py_in("plan_context", data)
  THEN [raised |-> FALSE, missing |-> <<"plan_context">>]
  ELSE IF SubscriptRaises(data, "plan_context")
  THEN [raised |-> TRUE, missing |-> <<>>]
  ELSE LET pc0 == Subscript(data, "plan_context")
           absent == SelectSeq(PlanContextFields, LAMBDA f : ~py_in(f, pc0))
       IN  IF InRaises(pc0)
           THEN [raised |-> TRUE, missing |-> <<>>]
           ELSE [raised |-> FALSE,
                 missing |-> [i \in DOMAIN absent |-> "plan_context." \o absent[i]]]

\* a scan that reads `requirements` with a default, as line 126 does
RequirementsPartLenient(data) ==
  IF ~py_in("requirements", data)
  THEN [raised |-> FALSE, missing |-> <<>>]
  ELSE [raised |-> SubscriptRaises(data, "requirements"), missing |-> <<>>]

\* lines 139-145: [raised, missing]
RequirementsPart(data) ==
  IF ~py_in("requirements", data)
  THEN [raised |-> FALSE, missing |-> <<"requirements">>]
  ELSE IF SubscriptRaises(data, "requirements")
  THEN [raised |-> TRUE, missing |-> <<>>]
  ELSE LET reqs == Subscript(data, "requirements")
           items == Iter(reqs)
       IN  IF IterRaises(reqs) \/ \E i \in DOMAIN items : ReqRaises(items[i])
           THEN [raised |-> TRUE, missing |-> <<>>]
           ELSE [raised |-> FALSE,
                 missing |-> Flatten([i \in DOMAIN items |-> ReqMissing(items[i])])]

\* the validator: "raise" is an exception that is not SystemExit, "fail" is
\* the call of _fail at line 148 with the `missing` list, "ok" is the return
_validate_intake(data) ==
  IF InRaises(data) THEN [outcome |-> "raise", missing |-> <<>>]
  ELSE LET p == PlanContextPart(data)
           r == RequirementsPart(data)
       IN  IF p.raised \/ r.raised
           THEN [outcome |-> "raise", missing |-> <<>>]
           ELSE [outcome |-> IF Len(p.missing \o r.missing) > 0 THEN "fail" ELSE "ok",
                 missing |-> p.missing \o r.missing]

(***************************************************************************)
(* _validate_risk                                                          *)
(***************************************************************************)
RiskEntryFields == <<"req_id", "risk", "severity", "severity_locked", "test_cases">>
valid_types == {"unit", "integration", "e2e", "exploratory", "non_functional"}
valid_surfaces == {"ui", "api", "service", "workflow"}

\* `value not in <a set of str>` raises TypeError on an unhashable value
Unhashable(v) == v.k \in {"list", "dict"}

\* the messages lines 213-220 append for one enumerated field of a test case
EnumErrors(tc, field, valid) ==
  LET tc_id == Render(Get(tc, "tc_id", JStr(<<"unknown">>)))
  IN  IF ~py_in(field, tc)
      THEN <<tc_id \o ": missing field '" \o field \o "'">>
      ELSE IF Subscript(tc, field).k = "str" /\ Join(Subscript(tc, field).s) \in valid
      THEN <<>>
      ELSE <<tc_id \o ": invalid " \o field \o " '"
               \o Render(Subscript(tc, field)) \o "'">>

\* one test case raises: tc.get on a value that is no dict, or an unhashable
\* `type` or `surface`
TcRaises(tc) ==
  \/ GetRaises(tc)
  \/ \E f \in {"type", "surface"} : py_in(f, tc) /\ Unhashable(Subscript(tc, f))

TcErrors(tc) ==
  EnumErrors(tc, "type", valid_types) \o EnumErrors(tc, "surface", valid_surfaces)

\* one entry raises: entry.get on a value that is no dict, a `test_cases`
\* that cannot be iterated, or a test case that raises
EntryRaises(entry) ==
  \/ GetRaises(entry)
  \/ LET tcs == Get(entry, "test_cases", JList(<<>>))
     IN  IterRaises(tcs) \/ \E i \in DOMAIN Iter(tcs) : TcRaises(Iter(tcs)[i])

\* the messages lines 207-220 append for one entry
EntryErrors(entry) ==
  LET req_id == Render(Get(entry, "req_id", JStr(<<"unknown">>)))
      absent == SelectSeq(RiskEntryFields, LAMBDA f : ~py_in(f, entry))
      tcs == Iter(Get(entry, "test_cases", JList(<<>>)))
  IN  [i \in DOMAIN absent |-> req_id \o ": missing field '" \o absent[i] \o "'"]
        \o Flatten([i \in DOMAIN tcs |-> TcErrors(tcs[i])])

\* a validator that scans whatever it is given, without the test of line 199
_validate_risk_unguarded(data) ==
  LET entries == Iter(data)
  IN  IF IterRaises(data) \/ \E i \in DOMAIN entries : EntryRaises(entries[i])
      THEN [outcome |-> "raise", errors |-> <<>>]
      ELSE LET errors == Flatten([i \in DOMAIN entries |-> EntryErrors(entries[i])])
           IN  [outcome |-> IF Len(errors) > 0 THEN "fail" ELSE "ok",
                errors |-> errors]

\* "shape" is the call of _fail at line 200, "fail" the one at line 223
_validate_risk(data) ==
  IF data.k # "list" THEN [outcome |-> "shape", errors |-> <<>>]
  ELSE LET entries == Iter(data)
       IN  IF \E i \in DOMAIN entries : EntryRaises(entries[i])
           THEN [outcome |-> "raise", errors |-> <<>>]
           ELSE LET errors == Flatten([i \in DOMAIN entries |-> EntryErrors(entries[i])])
                IN  [outcome |-> IF Len(errors) > 0 THEN "fail" ELSE "ok",
                     errors |-> errors]

(***************************************************************************)
(* Text.  A text is a sequence of tokens: the fence ```, the tag json,     *)
(* white space, a JSON document (standing for its serialisation, with the  *)
(* value json.loads gives it), text that is no JSON, and for the review    *)
(* document a line of text, a mis-decoded dash and a dash.                 *)
(***************************************************************************)
Tok(t, v, w) == [t |-> t, v |-> v, w |-> w]
Fence == Tok("fence", NoValue, "")
JsonTag == Tok("tag", NoValue, "json")
Ws == Tok("ws", NoValue, " ")
Junk == Tok("junk", NoValue, "oops")
Doc(v) == Tok("doc", v, "")
Line(w) == Tok("line", NoValue, w)
Mojibake == Tok("mojibake", NoValue, "")
EmDash == Tok("emdash", NoValue, "")

RECURSIVE lstrip(_)
lstrip(text) ==
  IF Len(text) > 0 /\ Head(text).t = "ws" THEN lstrip(Tail(text)) ELSE text

RECURSIVE rstrip(_)
rstrip(text) ==
  IF Len(text) > 0 /\ text[Len(text)].t = "ws"
  THEN rstrip(SubSeq(text, 1, Len(text) - 1)) ELSE text

\* str.strip()
strip(text) == rstrip(lstrip(text))

\* str.removeprefix(prefix)
removeprefix(text, prefix) ==
  IF Len(text) >= Len(prefix) /\ SubSeq(text, 1, Len(prefix)) = prefix
  THEN SubSeq(text, Len(prefix) + 1, Len(text)) ELSE text

\* str.removesuffix(suffix)
removesuffix(text, suffix) ==
  IF Len(text) >= Len(suffix)
     /\ SubSeq(text, Len(text) - Len(suffix) + 1, Len(text)) = suffix
  THEN SubSeq(text, 1, Len(text) - Len(suffix)) ELSE text

\* a sanitizer that looks for the generic marker before the tagged one
CleanedGenericFirst(raw) ==
  strip(removesuffix(removeprefix(removeprefix(strip(raw), <<Fence>>),
                                  <<Fence, JsonTag>>),
                     <<Fence>>))

\* line 52
Cleaned(raw) ==
  strip(removesuffix(removeprefix(removeprefix(strip(raw), <<Fence, JsonTag>>),
                                  <<Fence>>),
                     <<Fence>>))

\* json.loads succeeds on exactly one JSON document
json_loads_ok(text) == Len(text) = 1 /\ text[1].t = "doc"

\* lines 51-60: the decoded value, or the Parse error with the cleaned text
parse_json_output(raw) ==
  LET cleaned == Cleaned(raw)
  IN  IF json_loads_ok(cleaned)
      THEN [ok |-> TRUE, value |-> cleaned[1].v, cleaned |-> cleaned]
      ELSE [ok |-> FALSE, value |-> NoValue, cleaned |-> cleaned]

(***************************************************************************)
(* _validate_review                                                        *)
(***************************************************************************)
required_sections ==
  <<"## Purpose", "## In Scope", "## Out of Scope", "## Review Decision">>

\* `s in t` for two strings
Substring(s, t) ==
  \E i \in 1..(Len(t) - Len(s) + 1) : SubSeq(t, i, i + Len(s) - 1) = s

\* a validator that asks each marker to be a line of its own
SectionIsLine(s, content) ==
  \E i \in DOMAIN content : content[i].t = "line" /\ content[i].w = s

\* `s in content`: a marker holds no line break, so it occurs in the
\* document when it occurs in one of its lines ("### Purpose" holds
\* "## Purpose")
SectionIn(s, content) ==
  \E i \in DOMAIN content : content[i].t = "line" /\ Substring(s, content[i].w)

\* line 260: raw.replace(<mis-decoded dash>, <dash>).strip()
ReviewOutput(raw) ==
  strip([i \in DOMAIN raw |-> IF raw[i].t = "mojibake" THEN EmDash ELSE raw[i]])

\* lines 271-280: the `missing` list; _fail is called when it is not empty
_validate_review(content) ==
  SelectSeq(required_sections, LAMBDA s : ~SectionIn(s, content))

(***************************************************************************)
(* The values the generation backend can make the stages decode.           *)
(***************************************************************************)
SeqsUpTo(S, n) == UNION {[1..m -> S] : m \in 0..n}

\* the pairs of a dict that has the fields of `present`, in the order of `fields`
SubDict(fields, present, value(_)) ==
  LET fs == SelectSeq(fields, LAMBDA f : f \in present)
  IN  [i \in DOMAIN fs |-> [key |-> fs[i], val |-> value(fs[i])]]

\* the shapes of one element of `requirements`: a dict with some of the
\* required fields, a dict with the three of them and a field of its own, a
\* str that holds the three names, a str that holds none, a number
ReqShapes ==
  {[kind |-> "dict", has |-> S] : S \in SUBSET Range(RequirementFields)}
    \cup {[kind |-> k, has |-> {}] : k \in {"extra", "names", "str", "int"}}

ReqFieldValue(f, i) ==
  CASE f = "req_id" -> JStr(<<"R" \o ToString(i)>>)
    [] f = "ambiguity_flags" -> JList(<<>>)
    [] OTHER -> JStr(<<"PRD", ToString(i)>>)

\* the i-th element of `requirements`, of the given shape
MkReq(shape, i) ==
  CASE shape.kind = "dict" ->
         JDict(SubDict(RequirementFields, shape.has, LAMBDA f : ReqFieldValue(f, i)))
    [] shape.kind = "extra" ->
         JDict(<<[key |-> "title", val |-> JStr(<<"Login">>)]>>
               \o SubDict(RequirementFields, Range(RequirementFields),
                          LAMBDA f : ReqFieldValue(f, i)))
    [] shape.kind = "names" -> JStr(RequirementFields)
    [] shape.kind = "str" -> JStr(<<"R" \o ToString(i)>>)
    [] OTHER -> JInt

\* the values under `requirements`: lists of at most n elements, the empty
\* str, the empty dict, a number
RequirementsValues(n) ==
  {JList([i \in DOMAIN shapes |-> MkReq(shapes[i], i)]) : shapes \in SeqsUpTo(ReqShapes, n)}
    \cup {JStr(<<>>), JDict(<<>>), JInt}

\* the values under `plan_context`: a dict with some of the required
\* subfields, a dict with the three of them and a field of its own, a str
\* that holds the three names, null
PlanContextValues ==
  {JDict(SubDict(PlanContextFields, S, LAMBDA f : JStr(<<"text">>))) :
      S \in SUBSET Range(PlanContextFields)}
    \cup {JDict(SubDict(PlanContextFields, Range(PlanContextFields),
                        LAMBDA f : JStr(<<"text">>))
                \o <<[key |-> "assumptions", val |-> JList(<<>>)]>>),
          JStr(PlanContextFields), JNull}

\* a dict of the optional top-level keys, each present with one of its values
TopDict(pcs, rqs, ctxs) ==
  JDict((IF Len(pcs) = 0 THEN <<>> ELSE <<[key |-> "plan_context", val |-> pcs[1]]>>)
        \o (IF Len(rqs) = 0 THEN <<>> ELSE <<[key |-> "requirements", val |-> rqs[1]]>>)
        \o (IF Len(ctxs) = 0 THEN <<>> ELSE <<[key |-> "project_context", val |-> ctxs[1]]>>))

\* the decoded Intake payloads with at most n requirements: every dict of
\* the three keys above, and values that are no dict
IntakePayloads(n) ==
  {TopDict(pcs, rqs, ctxs) :
      pcs \in SeqsUpTo(PlanContextValues, 1),
      rqs \in SeqsUpTo(RequirementsValues(n), 1),
      ctxs \in SeqsUpTo({JStr(<<"web", "shop">>)}, 1)}
    \cup {JInt, JNull, JList(<<>>), JList(<<JStr(<<"plan_context">>)>>),
          JStr(<<"hello">>), JStr(<<"plan_context">>)}

\* test cases: valid, a `type` outside the enumeration, no `surface` and no
\* `tc_id`, a `type` that is a list, a str
TcValid ==
  JDict(<<[key |-> "tc_id", val |-> JStr(<<"TC1">>)],
          [key |-> "type", val |-> JStr(<<"unit">>)],
          [key |-> "surface", val |-> JStr(<<"api">>)]>>)
TcBogus ==
  JDict(<<[key |-> "tc_id", val |-> JStr(<<"TC2">>)],
          [key |-> "type", val |-> JStr(<<"bogus">>)],
          [key |-> "surface", val |-> JStr(<<"ui">>)]>>)
TcBare == JDict(<<[key |-> "type", val |-> JStr(<<"e2e">>)]>>)
TcListType ==
  JDict(<<[key |-> "tc_id", val |-> JStr(<<"TC3">>)],
          [key |-> "type", val |-> JList(<<JStr(<<"unit">>)>>)],
          [key |-> "surface", val |-> JStr(<<"ui">>)]>>)

RiskFieldValue(f) ==
  CASE f = "req_id" -> JStr(<<"R1">>)
    [] f = "severity_locked" -> JInt
    [] OTHER -> JStr(<<"high">>)

\* a Risk entry with the scalar fields of `present` and, when tcs is not
\* empty, the `test_cases` tcs[1]
RiskEntry(present, tcs) ==
  JDict(SubDict(RiskEntryFields, present, RiskFieldValue)
        \o (IF Len(tcs) = 0 THEN <<>> ELSE <<[key |-> "test_cases", val |-> tcs[1]]>>))

RiskScalars == {"req_id", "risk", "severity", "severity_locked"}

\* the decoded Risk payloads a whole run is fed
RunRiskPayloads ==
  {JList(<<>>), JDict(<<>>), JInt, JList(<<JStr(<<"R1">>)>>),
   JList(<<RiskEntry(RiskScalars, <<JList(<<>>)>>)>>),
   JList(<<RiskEntry(RiskScalars, <<JList(<<TcValid>>)>>)>>),
   JList(<<RiskEntry(RiskScalars, <<JList(<<TcValid, TcBogus>>)>>)>>),
   JList(<<RiskEntry(RiskScalars, <<JList(<<TcBare>>)>>)>>),
   JList(<<RiskEntry(RiskScalars, <<JList(<<TcListType>>)>>)>>),
   JList(<<RiskEntry(RiskScalars, <<JList(<<JStr(<<"TC1">>)>>)>>)>>),
   JList(<<RiskEntry(RiskScalars, <<JInt>>)>>),
   JList(<<RiskEntry({"risk", "severity"}, <<>>)>>),
   JList(<<RiskEntry(RiskScalars, <<JList(<<TcValid>>)>>),
           RiskEntry(RiskScalars \ {"severity"}, <<JList(<<TcValid>>)>>)>>)}

\* the texts a JSON stage can receive for a payload: bare, and wrapped in a
\* tagged fence with white space around
Wrappings(v) ==
  {<<Doc(v)>>, <<Ws, Fence, JsonTag, Ws, Doc(v), Ws, Fence, Ws>>}

RunIntakeRaws ==
  UNION {Wrappings(v) : v \in IntakePayloads(MaxRunReqs)} \cup {<<>>, <<Junk>>}

RunRiskRaws ==
  UNION {Wrappings(v) : v \in RunRiskPayloads}
    \cup {<<>>, <<Fence, Doc(JList(<<>>)), Fence, Fence>>}

\* the texts the Review stage can receive
RunReviewRaws ==
  {<<>>,
   <<Line("## Purpose"), Line("## In Scope"), Line("## Out of Scope"),
     Line("## Review Decision")>>,
   <<Ws, Line("# Test Plan"), Line("## Review Decision"), Mojibake,
     Line("## Out of Scope"), Line("prose"), Line("## In Scope"),
     Line("### Purpose"), Ws>>,
   <<Line("## Purpose"), Line("## In Scope"), Line("## Out of Scope")>>,
   <<Line("## In Scope"), Line("prose"), Line("## Review Decision")>>,
   <<Fence, Line("## Purpose"), Fence>>}

(***************************************************************************)
(* Paths                                                                   *)
(***************************************************************************)
\* a path is its parent directories and the pieces of its final component,
\* "." being a piece of its own
NoPath == [parent |-> <<>>, name |-> <<>>]

PrdPaths ==
  {[parent |-> <<"sample_input">>, name |-> <<"prd_clean_agile", ".", "md">>],
   [parent |-> <<>>, name |-> <<"notes", ".", "v2", ".", "md">>],
   [parent |-> <<"docs">>, name |-> <<".", "prd">>]}

RECURSIVE Concat(_)
Concat(pieces) ==
  IF Len(pieces) = 0 THEN "" ELSE Head(pieces) \o Concat(Tail(pieces))

\* the index of the last "." of a name, 0 when it has none (str.rfind, 1-based)
LastDot(name) ==
  IF \E i \in DOMAIN name : name[i] = "."
  THEN CHOOSE i \in DOMAIN name :
         name[i] = "." /\ \A j \in DOMAIN name : name[j] = "." => j <= i
  ELSE 0

\* Path.name taken for Path.stem
stem_with_suffix(path) == Concat(path.name)

\* Path.stem, line 294: the final component without its last suffix; a
\* leading or a trailing dot starts no suffix
stem(path) ==
  LET i == LastDot(path.name)
  IN  IF 1 < i /\ i < Len(path.name)
      THEN Concat(SubSeq(path.name, 1, i - 1))
      ELSE Concat(path.name)

\* lines 295-299
output_dir(folder) == <<"output", folder>>
intake_output_path(folder) == Append(output_dir(folder), "intake_output.json")
\* a Risk stage that is handed the path of the Intake artifact
risk_output_path_shared(folder) == Append(output_dir(folder), "intake_output.json")

risk_output_path(folder) == Append(output_dir(folder), "risk_output.json")
test_plan_path(folder) == Append(output_dir(folder), "test_plan.md")

ArtifactPath(stage, folder) ==
  CASE stage = "intake" -> intake_output_path(folder)
    [] stage = "risk" -> risk_output_path(folder)
    [] OTHER -> test_plan_path(folder)

(***************************************************************************)
(* The state of one run                                                    *)
(***************************************************************************)
VARIABLES
  pc,             \* the statement of main() the run is at
  argv,           \* sys.argv[1:]
  prd_path,       \* main's prd_path
  folder_name,    \* main's folder_name
  raw,            \* the stage's `raw`
  output,         \* the stage's `output`
  intake_output,  \* main's intake_output
  risk_output,    \* main's risk_output
  disk,           \* the files under output/: path -> text
  calls,          \* the Gateway calls made so far, with their user messages
  writes,         \* the stages whose artifact this run has written, in order
  stderr,         \* the diagnostics printed on the error channel
  exit_status     \* the exit status of the process, -1 while it runs

vars ==
  <<pc, argv, prd_path, folder_name, raw, output, intake_output, risk_output,
    disk, calls, writes, stderr, exit_status>>

Stages == <<"intake", "risk", "review">>

\* main() that hands the Intake result straight to the Review stage
ProgramOrderSkippingRisk ==
  <<"start", "client",
    "intake_load", "intake_call", "intake_parse", "intake_validate", "intake_save",
    "review_load", "review_call", "review_clean", "review_validate", "review_save",
    "done">>

\* stages that save their output before they validate it
ProgramOrderSaveFirst ==
  <<"start", "client",
    "intake_load", "intake_call", "intake_parse", "intake_save", "intake_validate",
    "risk_load", "risk_call", "risk_parse", "risk_save", "risk_validate",
    "review_load", "review_call", "review_clean", "review_save", "review_validate",
    "done">>

\* a Risk stage that looks for its instruction template after its call
ProgramOrderLateTemplate ==
  <<"start", "client",
    "intake_load", "intake_call", "intake_parse", "intake_validate", "intake_save",
    "risk_call", "risk_load", "risk_parse", "risk_validate", "risk_save",
    "review_load", "review_call", "review_clean", "review_validate", "review_save",
    "done">>

\* the statements of main() and of the three run_*_agent functions it calls,
\* in the order they are executed
ProgramOrder ==
  <<"start", "client",
    "intake_load", "intake_call", "intake_parse", "intake_validate", "intake_save",
    "risk_load", "risk_call", "risk_parse", "risk_validate", "risk_save",
    "review_load", "review_call", "review_clean", "review_validate", "review_save",
    "done">>

Position(order, label) == CHOOSE i \in DOMAIN order : order[i] = label

\* the statement that follows `label`
StepAfter(label) == ProgramOrder[Position(ProgramOrder, label) + 1]

\* json.dump(data, f, indent=2): the serialised document
json_dump(data) == <<Doc(data)>>

\* save_json that writes the text the backend sent
save_json_raw(data, path) == (path :> raw) @@ disk

\* lines 63-66: the files after save_json(data, path)
save_json(data, path) == (path :> json_dump(data)) @@ disk

\* lines 69-72: the files after save_text(content, path)
save_text(content, path) == (path :> content) @@ disk

EmptyDisk == [p \in {} |-> <<>>]

\* artifacts an earlier run on the same input left behind
StaleDisk(folder) ==
  [p \in {ArtifactPath(st, folder) : st \in Range(Stages)} |-> <<Line("old")>>]

Diag(kind, stage, items, text) ==
  [kind |-> kind, stage |-> stage, items |-> items, text |-> text]

\* _fail that removes the output directory before it exits
_fail_cleanup(message) ==
  /\ pc' = "failed"
  /\ stderr' = Append(stderr, message)
  /\ exit_status' = 1
  /\ disk' = [p \in {} |-> <<>>]
  /\ UNCHANGED <<argv, prd_path, folder_name, raw, output, intake_output,
                 risk_output, writes>>

\* lines 75-77: one message on the error channel, then sys.exit(1); nothing
\* else of the run changes
_fail(message) ==
  /\ pc' = "failed"
  /\ stderr' = Append(stderr, message)
  /\ exit_status' = 1
  /\ UNCHANGED <<argv, prd_path, folder_name, raw, output, intake_output,
                 risk_output, disk, writes>>

\* an exception nothing catches: the interpreter prints the traceback and
\* exits with status 1
Uncaught(stage) ==
  /\ pc' = "crashed"
  /\ stderr' = Append(stderr, Diag("traceback", stage, <<>>, <<>>))
  /\ exit_status' = 1
  /\ UNCHANGED <<argv, prd_path, folder_name, raw, output, intake_output,
                 risk_output, disk, writes>>

\* what client.chat.completions.create does: raises, or answers with a text
\* (a content of None reads as the empty text)
GatewayResults(raws) ==
  {[kind |-> "error", text |-> <<>>]} \cup {[kind |-> "text", text |-> r] : r \in raws}

UserMessage(stage, project_context, requirements, intake, risk, folder) ==
  [stage |-> stage, project_context |-> project_context,
   requirements |-> requirements, intake |-> intake, risk |-> risk,
   folder |-> folder]

\* a Risk stage that reads the project context under `plan_context`
RiskUserMessageFromPlanContext(intake) ==
  UserMessage("risk", Get(intake, "plan_context", JNull),
              Get(intake, "requirements", JList(<<>>)), NoValue, NoValue, "")

\* lines 161-169
RiskUserMessage(intake) ==
  UserMessage("risk", Get(intake, "project_context", JNull),
              Get(intake, "requirements", JList(<<>>)), NoValue, NoValue, "")

\* lines 237-244
ReviewUserMessage(intake, risk, folder) ==
  UserMessage("review", NoValue, NoValue, intake, risk, folder)

Init ==
  /\ pc = "start"
  /\ argv \in {<<>>} \cup {<<p>> : p \in PrdPaths}
  /\ prd_path = NoPath
  /\ folder_name = ""
  /\ raw = <<>>
  /\ output = NoValue
  /\ intake_output = NoValue
  /\ risk_output = NoValue
  /\ disk \in {EmptyDisk} \cup {StaleDisk(stem(argv[i])) : i \in DOMAIN argv}
  /\ calls = <<>>
  /\ writes = <<>>
  /\ stderr = <<>>
  /\ exit_status = -1

\* lines 288-303
Main ==
  /\ pc = "start"
  /\ IF Len(argv) # 1
     THEN /\ pc' = "failed"
          /\ stderr' = Append(stderr, Diag("usage", "main", <<>>, <<>>))
          /\ exit_status' = 1
          /\ UNCHANGED <<prd_path, folder_name>>
     ELSE /\ pc' = StepAfter("start")
          /\ prd_path' = argv[1]
          /\ folder_name' = stem(argv[1])
          /\ UNCHANGED <<stderr, exit_status>>
  /\ UNCHANGED <<argv, raw, output, intake_output, risk_output, disk, calls, writes>>

\* lines 305, 37-41
get_openai_client ==
  /\ pc = "client"
  /\ \E api_key \in BOOLEAN :
       IF ~api_key
       THEN _fail(Diag("config", "main", <<"OPENAI_API_KEY">>, <<>>))
       ELSE /\ pc' = StepAfter("client")
            /\ UNCHANGED <<argv, prd_path, folder_name, raw, output, intake_output,
                           risk_output, disk, writes, stderr, exit_status>>
  /\ UNCHANGED calls

\* load_prompt, lines 44-48, as each stage calls it first (lines 96, 159, 234)
load_prompt(stage, exists) ==
  IF ~exists
  THEN _fail(Diag("config", stage, <<"prompt">>, <<>>))
  ELSE /\ pc' = StepAfter(pc)
       /\ UNCHANGED <<argv, prd_path, folder_name, raw, output, intake_output,
                      risk_output, disk, writes, stderr, exit_status>>

\* lines 93-102
IntakeLoad ==
  /\ pc = "intake_load"
  /\ \E prompt_exists \in BOOLEAN, prd_exists \in BOOLEAN :
       IF prompt_exists /\ ~prd_exists
       THEN _fail(Diag("input", "intake", <<"prd">>, <<>>))
       ELSE load_prompt("intake", prompt_exists)
  /\ UNCHANGED calls

\* a Gateway call that is made again, up to three calls, when it fails
CallWithRetry(stage, message, raws) ==
  /\ calls' = Append(calls, message)
  /\ \E r \in GatewayResults(raws) :
       IF r.kind = "error"
       THEN IF Len(calls) < 2
            THEN UNCHANGED <<pc, argv, prd_path, folder_name, raw, output,
                             intake_output, risk_output, disk, writes, stderr,
                             exit_status>>
            ELSE _fail(Diag("transport", stage, <<>>, <<>>))
       ELSE /\ pc' = StepAfter(pc)
            /\ raw' = r.text
            /\ UNCHANGED <<argv, prd_path, folder_name, output, intake_output,
                           risk_output, disk, writes, stderr, exit_status>>

\* the Gateway call of a stage and the read of its answer (lines 104-117,
\* 171-184, 246-259)
Call(stage, message, raws) ==
  /\ calls' = Append(calls, message)
  /\ \E r \in GatewayResults(raws) :
       IF r.kind = "error"
       THEN _fail(Diag("transport", stage, <<>>, <<>>))
       ELSE /\ pc' = StepAfter(pc)
            /\ raw' = r.text
            /\ UNCHANGED <<argv, prd_path, folder_name, output, intake_output,
                           risk_output, disk, writes, stderr, exit_status>>

IntakeCall ==
  /\ pc = "intake_call"
  /\ Call("intake", UserMessage("intake", NoValue, NoValue, NoValue, NoValue, ""),
          RunIntakeRaws)

\* lines 118, 185: output = parse_json_output(raw, ...)
Parse(stage) ==
  LET r == parse_json_output(raw)
  IN  /\ IF ~r.ok
         THEN _fail(Diag("parse", stage, <<>>, r.cleaned))
         ELSE /\ pc' = StepAfter(pc)
              /\ output' = r.value
              /\ UNCHANGED <<argv, prd_path, folder_name, raw, intake_output,
                             risk_output, disk, writes, stderr, exit_status>>
      /\ UNCHANGED calls

IntakeParse == pc = "intake_parse" /\ Parse("intake")

\* the end of a validation: an exception, _fail with the violations, or on
\* to the next statement
Validated(stage, outcome, violations) ==
  /\ CASE outcome = "raise" -> Uncaught(stage)
       [] outcome = "ok" ->
            /\ pc' = StepAfter(pc)
            /\ UNCHANGED <<argv, prd_path, folder_name, raw, output, intake_output,
                           risk_output, disk, writes, stderr, exit_status>>
       [] OTHER -> _fail(Diag(outcome, stage, violations, <<>>))
  /\ UNCHANGED calls

\* lines 120-121
IntakeValidate ==
  /\ pc = "intake_validate"
  /\ LET r == _validate_intake(output)
     IN  Validated("intake", IF r.outcome = "fail" THEN "validation" ELSE r.outcome,
                   r.missing)

\* lines 123-128 and the assignment of line 307
IntakeSave ==
  /\ pc = "intake_save"
  /\ disk' = save_json(output, intake_output_path(folder_name))
  /\ writes' = Append(writes, "intake")
  /\ intake_output' = output
  /\ output' = NoValue
  /\ raw' = <<>>
  /\ pc' = StepAfter("intake_save")
  /\ UNCHANGED <<argv, prd_path, folder_name, risk_output, calls, stderr, exit_status>>

\* lines 156-159
RiskLoad ==
  /\ pc = "risk_load"
  /\ \E prompt_exists \in BOOLEAN : load_prompt("risk", prompt_exists)
  /\ UNCHANGED calls

RiskCall ==
  /\ pc = "risk_call"
  /\ Call("risk", RiskUserMessage(intake_output), RunRiskRaws)

RiskParse == pc = "risk_parse" /\ Parse("risk")

\* lines 187-188
RiskValidate ==
  /\ pc = "risk_validate"
  /\ LET r == _validate_risk(output)
     IN  Validated("risk", IF r.outcome = "fail" THEN "validation" ELSE r.outcome,
                   r.errors)

\* lines 190-195 and the assignment of line 308
RiskSave ==
  /\ pc = "risk_save"
  /\ disk' = save_json(output, risk_output_path(folder_name))
  /\ writes' = Append(writes, "risk")
  /\ risk_output' = output
  /\ output' = NoValue
  /\ raw' = <<>>
  /\ pc' = StepAfter("risk_save")
  /\ UNCHANGED <<argv, prd_path, folder_name, intake_output, calls, stderr, exit_status>>

\* lines 231-234
ReviewLoad ==
  /\ pc = "review_load"
  /\ \E prompt_exists \in BOOLEAN : load_prompt("review", prompt_exists)
  /\ UNCHANGED calls

ReviewCall ==
  /\ pc = "review_call"
  /\ Call("review", ReviewUserMessage(intake_output, risk_output, folder_name),
          RunReviewRaws)

\* line 260; the review text is kept in `raw`, the JSON stages' `output`
\* holding no text
ReviewClean ==
  /\ pc = "review_clean"
  /\ raw' = ReviewOutput(raw)
  /\ pc' = StepAfter("review_clean")
  /\ UNCHANGED <<argv, prd_path, folder_name, output, intake_output, risk_output,
                 disk, calls, writes, stderr, exit_status>>

\* lines 262-263
ReviewValidate ==
  /\ pc = "review_validate"
  /\ LET missing == _validate_review(raw)
     IN  Validated("review", IF Len(missing) > 0 THEN "validation" ELSE "ok", missing)

\* lines 265-268, then line 311 and the normal end of the process
ReviewSave ==
  /\ pc = "review_save"
  /\ disk' = save_text(raw, test_plan_path(folder_name))
  /\ writes' = Append(writes, "review")
  /\ raw' = <<>>
  /\ pc' = StepAfter("review_save")
  /\ exit_status' = 0
  /\ UNCHANGED <<argv, prd_path, folder_name, output, intake_output, risk_output,
                 calls, stderr>>

Next ==
  \/ Main
  \/ get_openai_client
  \/ IntakeLoad
  \/ IntakeCall
  \/ IntakeParse
  \/ IntakeValidate
  \/ IntakeSave
  \/ RiskLoad
  \/ RiskCall
  \/ RiskParse
  \/ RiskValidate
  \/ RiskSave
  \/ ReviewLoad
  \/ ReviewCall
  \/ ReviewClean
  \/ ReviewValidate
  \/ ReviewSave

Spec == Init /\ [][Next]_vars


(***************************************************************************)
(* What a state tells of the run so far                                    *)
(***************************************************************************)
CallStages == [i \in DOMAIN calls |-> calls[i].stage]
Called(stage) == stage \in Range(CallStages)
Wrote(stage) == stage \in Range(writes)
IsPrefix(a, b) == Len(a) <= Len(b) /\ SubSeq(b, 1, Len(a)) = a
StageIndex(stage) == Position(Stages, stage)

\* the run has ended in a failure of the given stage
FailedIn(stage) ==
  pc \in {"failed", "crashed"} /\ Len(stderr) > 0 /\ stderr[Len(stderr)].stage = stage

\* the value a JSON artifact holds, NoValue when the file is no JSON document
Persisted(path) ==
  IF path \in DOMAIN disk /\ json_loads_ok(disk[path]) THEN disk[path][1].v ELSE NoValue

(***************************************************************************)
(* C1: the stages run only in the order Intake, Risk, Review: the Gateway  *)
(* is called for the stages in that order; it is called for Risk only      *)
(* after Intake has succeeded and for Review only after Risk has           *)
(* succeeded; DONE is reached only after Review has succeeded; and once    *)
(* the run is FAILED nothing of it changes any more.                       *)
(***************************************************************************)
C1_OrderNow ==
  /\ IsPrefix(CallStages, Stages)
  /\ Called("risk") => Wrote("intake") /\ intake_output # NoValue
  /\ Called("review") => Wrote("risk") /\ risk_output # NoValue
  /\ pc = "done" => Wrote("review") /\ CallStages = Stages /\ exit_status = 0

C1_StagesInOrder ==
  /\ []C1_OrderNow
  /\ [][pc = "failed" => UNCHANGED vars]_vars

C1_Witness == pc = "done" /\ CallStages = Stages /\ writes = Stages

(***************************************************************************)
(* C2: fail-fast.  When a stage has failed, the Gateway has not been       *)
(* called for any later stage and this run has written no artifact of the  *)
(* failing stage or of a later one; and a run whose Intake output lacks    *)
(* `requirements` never calls the Gateway for Risk and never writes the    *)
(* Risk or the Review artifact.  (A failed run takes no further step, so   *)
(* what holds of its last state holds for ever.)                           *)
(***************************************************************************)
\* the decoded output of the Intake stage, once there is one
IntakeDecoded ==
  IF intake_output # NoValue THEN intake_output
  ELSE IF Len(calls) = 1 THEN output ELSE NoValue

C2_FailFast ==
  /\ \A st \in Range(Stages) :
       FailedIn(st) =>
         \A later \in Range(Stages) :
            /\ StageIndex(later) > StageIndex(st) => ~Called(later)
            /\ StageIndex(later) >= StageIndex(st) => ~Wrote(later)
  /\ (IntakeDecoded # NoValue /\ ~py_in("requirements", IntakeDecoded)) =>
       ~Called("risk") /\ ~Wrote("risk") /\ ~Wrote("review") /\ ~Wrote("intake")
          /\ pc \in {"intake_validate", "failed", "crashed"}

C2_Witness ==
  /\ FailedIn("intake")
  /\ stderr[1].kind = "validation"
  /\ output.k = "dict" /\ "plan_context" \in Keys(output)
  /\ "requirements" \notin Keys(output)
  /\ calls = <<UserMessage("intake", NoValue, NoValue, NoValue, NoValue, "")>>

(***************************************************************************)
(* C3: a stage reaches its save, and an artifact is written, only after    *)
(* the stage's Gateway call, its decode and its validator have all         *)
(* succeeded: every artifact this run has written holds an output that     *)
(* decodes and that its stage's validator passes.                          *)
(***************************************************************************)
PassesChecks(stage, text) ==
  CASE stage = "intake" ->
         json_loads_ok(text) /\ _validate_intake(text[1].v).outcome = "ok"
    [] stage = "risk" ->
         json_loads_ok(text) /\ _validate_risk(text[1].v).outcome = "ok"
    [] OTHER -> _validate_review(text) = <<>>

C3_OnlyCheckedOutputsPersist ==
  /\ \A st \in Range(Stages) :
       Wrote(st) =>
         /\ Called(st)
         /\ ArtifactPath(st, folder_name) \in DOMAIN disk
         /\ PassesChecks(st, disk[ArtifactPath(st, folder_name)])
  /\ pc = "intake_save" => Called("intake") /\ _validate_intake(output).outcome = "ok"
  /\ pc = "risk_save" => Called("risk") /\ _validate_risk(output).outcome = "ok"
  /\ pc = "review_save" => Called("review") /\ _validate_review(raw) = <<>>

C3_Witness ==
  /\ writes = <<"intake", "risk">>
  /\ pc = "failed"
  /\ stderr[1].kind = "validation" /\ stderr[1].stage = "review"

(***************************************************************************)
(* C4: when the Gateway is called for Risk the Intake artifact is on disk, *)
(* and the message of that call is built from the value the artifact       *)
(* holds; when it is called for Review both artifacts are on disk and the  *)
(* message carries the two values they hold.  The in-memory results stay   *)
(* equal to the persisted ones for the rest of the run.                    *)
(***************************************************************************)
C4_PersistedBeforeUse ==
  /\ Called("risk") =>
       /\ Wrote("intake")
       /\ Persisted(intake_output_path(folder_name)) # NoValue
       /\ intake_output = Persisted(intake_output_path(folder_name))
       /\ \E i \in DOMAIN calls :
            calls[i] = RiskUserMessage(Persisted(intake_output_path(folder_name)))
  /\ Called("review") =>
       /\ Wrote("risk")
       /\ Persisted(risk_output_path(folder_name)) # NoValue
       /\ risk_output = Persisted(risk_output_path(folder_name))
       /\ \E i \in DOMAIN calls :
            calls[i] = ReviewUserMessage(Persisted(intake_output_path(folder_name)),
                                         Persisted(risk_output_path(folder_name)),
                                         folder_name)

C4_Witness ==
  /\ pc = "review_clean"
  /\ CallStages = Stages
  /\ "project_context" \in Keys(intake_output)
  /\ Len(Subscript(intake_output, "requirements").c) = 1
  /\ Len(risk_output.c) = 1

(***************************************************************************)
(* C5: no rollback.  The step in which a run fails changes no file, so the *)
(* artifacts of the stages that succeeded before stay on disk with the     *)
(* content they were written with.                                         *)
(***************************************************************************)
C5_FailureStep ==
  pc' \in {"failed", "crashed"} =>
    /\ disk' = disk
    /\ Wrote("intake") =>
         disk'[intake_output_path(folder_name)] = json_dump(intake_output)
    /\ Wrote("risk") =>
         disk'[risk_output_path(folder_name)] = json_dump(risk_output)

C5_NoRollback == [][C5_FailureStep]_vars

C5_Witness ==
  /\ pc = "failed"
  /\ stderr[1].stage = "review"
  /\ disk[intake_output_path(folder_name)] = json_dump(intake_output)
  /\ disk[risk_output_path(folder_name)] = json_dump(risk_output)
  /\ Len(risk_output.c) > 0

(***************************************************************************)
(* C6: in DONE the three artifacts exist at their fixed names under        *)
(* output/<base name of the input without its last suffix>, and this run   *)
(* wrote them in the order Intake, Risk, Review.                           *)
(***************************************************************************)
\* the input's final component is the root's name followed by one suffix,
\* or is the root's name when it has no suffix to drop
DerivedFrom(folder, path) ==
  LET n == Len(path.name)
  IN  \/ /\ n >= 3 /\ path.name[n - 1] = "." /\ path.name[n] # "."
         /\ Concat(path.name) = folder \o "." \o path.name[n]
      \/ /\ ~(\E i \in 2..(n - 1) : path.name[i] = ".")
         /\ Concat(path.name) = folder

C6_ArtifactsAtDone ==
  pc = "done" =>
    /\ writes = Stages
    /\ DerivedFrom(folder_name, argv[1])
    /\ {<<"output", folder_name, "intake_output.json">>,
        <<"output", folder_name, "risk_output.json">>,
        <<"output", folder_name, "test_plan.md">>} \subseteq DOMAIN disk
    /\ disk[<<"output", folder_name, "intake_output.json">>] = json_dump(intake_output)
    /\ disk[<<"output", folder_name, "risk_output.json">>] = json_dump(risk_output)
    /\ _validate_review(disk[<<"output", folder_name, "test_plan.md">>]) = <<>>
    /\ (Concat(argv[1].name) = "prd_clean_agile.md" => folder_name = "prd_clean_agile")

C6_Witness ==
  /\ pc = "done"
  /\ argv[1].name = <<"prd_clean_agile", ".", "md">>
  /\ DOMAIN disk = {<<"output", "prd_clean_agile", "intake_output.json">>,
                    <<"output", "prd_clean_agile", "risk_output.json">>,
                    <<"output", "prd_clean_agile", "test_plan.md">>}

(***************************************************************************)
(* C7: every fatal path ends with one explanatory message printed by       *)
(* _fail (or the usage message) and a non-zero exit, never with an         *)
(* exception nothing catches.                                              *)
(***************************************************************************)
C7_EveryFatalPathExplained ==
  exit_status = 1 =>
    /\ pc = "failed"
    /\ Len(stderr) = 1
    /\ stderr[1].kind # "traceback"

(***************************************************************************)
(* C8, as claimed: a Configuration error (no credential, or no instruction *)
(* template of any stage) is raised before any Gateway call and before any *)
(* artifact is written.                                                    *)
(***************************************************************************)
ConfigFailure == pc = "failed" /\ stderr[Len(stderr)].kind = "config"

C8_ConfigErrorsPreExecution ==
  ConfigFailure => calls = <<>> /\ writes = <<>>

(***************************************************************************)
(* C8, amended: a missing credential fails the run before any Gateway call *)
(* and any artifact; a missing instruction template fails the run when its *)
(* own stage starts, before the Gateway call of that stage and before the  *)
(* artifact of that stage or of a later one, the earlier stages having     *)
(* run.                                                                    *)
(***************************************************************************)
C8_ConfigErrorsBeforeTheirStage ==
  ConfigFailure =>
    LET st == stderr[Len(stderr)].stage
    IN  IF st = "main"
        THEN calls = <<>> /\ writes = <<>>
        ELSE /\ \A later \in Range(Stages) :
                  StageIndex(later) >= StageIndex(st) => ~Called(later) /\ ~Wrote(later)
             /\ \A earlier \in Range(Stages) :
                  StageIndex(earlier) < StageIndex(st) => Called(earlier) /\ Wrote(earlier)

C8_Witness ==
  /\ ConfigFailure
  /\ stderr[1].stage = "risk"
  /\ CallStages = <<"intake">>
  /\ writes = <<"intake">>

(***************************************************************************)
(* C9: a run that has not ended is at a statement of the program, and a    *)
(* run that has ended is either DONE with exit status 0 or FAILED with a   *)
(* non-zero exit status and a diagnostic message.                          *)
(***************************************************************************)
C9_TwoOutcomes ==
  IF exit_status = -1
  THEN pc \in Range(ProgramOrder) \ {"done"}
  ELSE \/ pc = "done" /\ exit_status = 0 /\ stderr = <<>>
       \/ /\ pc = "failed" /\ exit_status = 1
          /\ stderr # <<>> /\ \A i \in DOMAIN stderr : stderr[i].kind # "traceback"

(***************************************************************************)
(* The Intake validator on every payload: the run is placed at the         *)
(* validation of the Intake stage with an arbitrary decoded output.        *)
(***************************************************************************)
SamplePrd == [parent |-> <<"sample_input">>, name |-> <<"prd_clean_agile", ".", "md">>]

InitIntake ==
  /\ pc = "intake_validate"
  /\ argv = <<SamplePrd>>
  /\ prd_path = SamplePrd
  /\ folder_name = stem(SamplePrd)
  /\ output \in IntakePayloads(MaxReqs)
  /\ raw = <<Doc(output)>>
  /\ intake_output = NoValue
  /\ risk_output = NoValue
  /\ disk = EmptyDisk
  /\ calls = <<UserMessage("intake", NoValue, NoValue, NoValue, NoValue, "")>>
  /\ writes = <<>>
  /\ stderr = <<>>
  /\ exit_status = -1

SpecIntake == InitIntake /\ [][IntakeValidate]_vars

(***************************************************************************)
(* C10: for every Intake payload (a mapping) in which N > 0 required fields *)
(* are missing (the top-level `plan_context` and `requirements`, the three *)
(* subfields of a `plan_context` that is there, the three fields of each   *)
(* element of a `requirements` sequence), the validator completes its scan *)
(* and fails once, and its list holds one identifier for each of the N     *)
(* missing fields and nothing else.                                        *)
(***************************************************************************)
\* v carries the field f: v is a mapping with the key f
HasField(v, f) == v.k = "dict" /\ f \in Keys(v)

\* where a required field is missing: at the top, in plan_context, or in
\* the idx-th requirement
MissingPositions(data) ==
  {[part |-> "top", idx |-> 0, field |-> f] :
      f \in {g \in {"plan_context", "requirements"} : ~HasField(data, g)}}
  \cup
  (IF HasField(data, "plan_context")
   THEN {[part |-> "plan_context", idx |-> 0, field |-> f] :
            f \in {g \in Range(PlanContextFields) :
                     ~HasField(Subscript(data, "plan_context"), g)}}
   ELSE {})
  \cup
  (IF HasField(data, "requirements") /\ Subscript(data, "requirements").k = "list"
   THEN UNION {{[part |-> "requirement", idx |-> i, field |-> f] :
                   f \in {g \in Range(RequirementFields) :
                            ~HasField(Subscript(data, "requirements").c[i].val, g)}} :
                i \in DOMAIN Subscript(data, "requirements").c}
   ELSE {})

\* the identifier the message gives a missing field
Identifier(data, pos) ==
  CASE pos.part = "top" -> pos.field
    [] pos.part = "plan_context" -> "plan_context." \o pos.field
    [] OTHER ->
         LET req == Subscript(data, "requirements").c[pos.idx].val
         IN  (IF HasField(req, "req_id") THEN Render(Subscript(req, "req_id"))
              ELSE "unknown") \o "." \o pos.field

Count(id, list) == Cardinality({i \in DOMAIN list : list[i] = id})

\* the validator has run on `output`
IntakeValidated == pc # "intake_validate" /\ Len(calls) = 1 /\ intake_output = NoValue

\* the run has failed once, with exactly the missing fields of `output`
ReportsExactlyTheMissing ==
  /\ pc = "failed"
  /\ Len(stderr) = 1
  /\ stderr[1].kind = "validation" /\ stderr[1].stage = "intake"
  /\ Len(stderr[1].items) = Cardinality(MissingPositions(output))
  /\ \A pos \in MissingPositions(output) :
        Count(Identifier(output, pos), stderr[1].items)
          = Cardinality({q \in MissingPositions(output) :
                           Identifier(output, q) = Identifier(output, pos)})

C10_AllMissingFieldsReported ==
  (IntakeValidated /\ output.k = "dict" /\ MissingPositions(output) # {})
    => ReportsExactlyTheMissing

(***************************************************************************)
(* The part of C10 that holds: the same statement for the payloads that    *)
(* are a mapping whose `plan_context`, if present, is a mapping and whose  *)
(* `requirements`, if present, is a sequence of mappings.                  *)
(***************************************************************************)
WellShaped(data) ==
  /\ data.k = "dict"
  /\ "plan_context" \in Keys(data) => Subscript(data, "plan_context").k = "dict"
  /\ "requirements" \in Keys(data) =>
       /\ Subscript(data, "requirements").k = "list"
       /\ \A i \in DOMAIN Subscript(data, "requirements").c :
             Subscript(data, "requirements").c[i].val.k = "dict"

MappingPayloadsReported ==
  (IntakeValidated /\ WellShaped(output) /\ MissingPositions(output) # {})
    => ReportsExactlyTheMissing

(***************************************************************************)
(* C11: an Intake payload that has `plan_context` with `purpose`,          *)
(* `in_scope` and `out_of_scope`, and a `requirements` sequence whose      *)
(* every entry has `req_id`, `prd_ref` and `ambiguity_flags`, passes the   *)
(* Intake validator with no violation, whatever other fields the payload,  *)
(* its plan_context or its requirements carry: the run goes on to the save *)
(* of the Intake stage and nothing is printed on the error channel.        *)
(***************************************************************************)
CompleteIntake(data) ==
  /\ data.k = "dict"
  /\ {"plan_context", "requirements"} \subseteq Keys(data)
  /\ Subscript(data, "plan_context").k = "dict"
  /\ {"purpose", "in_scope", "out_of_scope"}
        \subseteq Keys(Subscript(data, "plan_context"))
  /\ Subscript(data, "requirements").k = "list"
  /\ \A i \in DOMAIN Subscript(data, "requirements").c :
        /\ Subscript(data, "requirements").c[i].val.k = "dict"
        /\ {"req_id", "prd_ref", "ambiguity_flags"}
              \subseteq Keys(Subscript(data, "requirements").c[i].val)

C11_CompletePayloadsPass ==
  (IntakeValidated /\ CompleteIntake(output)) =>
    /\ pc = "intake_save"
    /\ stderr = <<>>
    /\ exit_status = -1

C11_Witness ==
  /\ pc = "intake_save"
  /\ IntakeValidated
  /\ CompleteIntake(output)
  /\ "project_context" \in Keys(output)
  /\ "assumptions" \in Keys(Subscript(output, "plan_context"))
  /\ Len(Subscript(output, "requirements").c) = 2
  /\ "title" \in Keys(Subscript(output, "requirements").c[2].val)
  /\ "title" \notin Keys(Subscript(output, "requirements").c[1].val)

(***************************************************************************)
(* The Risk validator on every payload: the run is placed at the           *)
(* validation of the Risk stage with an arbitrary decoded output.          *)
(***************************************************************************)
\* the shapes of one test case: a dict with or without `tc_id`, with a
\* `type` and a `surface` that are absent, in the enumeration, a str outside
\* it, a number or a list; every pair of enumerated values; a str
TcShapes ==
  {[kind |-> "dict", id |-> id, type |-> t, surface |-> sf] :
      id \in BOOLEAN,
      t \in {"absent", "unit", "bogus", "int", "list"},
      sf \in {"absent", "api", "bogus", "list"}}
    \cup {[kind |-> "dict", id |-> TRUE, type |-> t, surface |-> sf] :
            t \in valid_types, sf \in valid_surfaces}
    \cup {[kind |-> "str", id |-> FALSE, type |-> "absent", surface |-> "absent"]}

\* the pair of an enumerated field of a test case
EnumPair(field, choice) ==
  CASE choice = "absent" -> <<>>
    [] choice = "int" -> <<[key |-> field, val |-> JInt]>>
    [] choice = "list" -> <<[key |-> field, val |-> JList(<<JStr(<<"unit">>)>>)]>>
    [] OTHER -> <<[key |-> field, val |-> JStr(<<choice>>)]>>

\* the j-th test case of an entry, of the given shape
MkTc(shape, j) ==
  IF shape.kind = "str" THEN JStr(<<"TC" \o ToString(j)>>)
  ELSE JDict((IF shape.id
              THEN <<[key |-> "tc_id", val |-> JStr(<<"TC" \o ToString(j)>>)]>>
              ELSE <<>>)
             \o EnumPair("type", shape.type)
             \o EnumPair("surface", shape.surface))

\* payloads whose top level is no sequence: mappings (empty, one entry that
\* is not in a list, entries keyed by their requirement), a str, a number,
\* null
NonSequencePayloads ==
  {JDict(<<>>),
   RiskEntry(RiskScalars, <<JList(<<TcValid>>)>>),
   RiskEntry({"risk"}, <<JList(<<TcBogus, TcBare>>)>>),
   JDict(<<[key |-> "R1", val |-> RiskEntry(RiskScalars, <<JList(<<TcBogus>>)>>)]>>),
   JStr(<<"R1">>), JInt, JNull}

\* the decoded Risk payloads with at most n test cases in an entry
RiskPayloads(n) ==
  {JList(<<RiskEntry(RiskScalars, <<JList([j \in DOMAIN shapes |-> MkTc(shapes[j], j)])>>)>>) :
      shapes \in SeqsUpTo(TcShapes, n)}
    \cup RunRiskPayloads
    \cup NonSequencePayloads

\* an Intake result the Intake stage has validated and saved
SampleIntake ==
  TopDict(<<JDict(SubDict(PlanContextFields, Range(PlanContextFields),
                          LAMBDA f : JStr(<<"text">>)))>>,
          <<JList(<<MkReq([kind |-> "dict", has |-> Range(RequirementFields)], 1)>>)>>,
          <<>>)

InitRisk ==
  /\ pc = "risk_validate"
  /\ argv = <<SamplePrd>>
  /\ prd_path = SamplePrd
  /\ folder_name = stem(SamplePrd)
  /\ output \in RiskPayloads(MaxTcs)
  /\ raw = <<Doc(output)>>
  /\ intake_output = SampleIntake
  /\ risk_output = NoValue
  /\ disk = (intake_output_path(stem(SamplePrd)) :> json_dump(SampleIntake))
  /\ calls = <<UserMessage("intake", NoValue, NoValue, NoValue, NoValue, ""),
               RiskUserMessage(SampleIntake)>>
  /\ writes = <<"intake">>
  /\ stderr = <<>>
  /\ exit_status = -1

SpecRisk == InitRisk /\ [][RiskValidate]_vars

\* the validator has run on `output`
RiskValidated == pc # "risk_validate" /\ Len(calls) = 2 /\ risk_output = NoValue

(***************************************************************************)
(* C12: a Risk payload whose top level is no sequence (a mapping, a str, a *)
(* number, null) fails the Risk validator with the wrong-top-level-shape   *)
(* error alone: no entry and no test case of it is looked at, so the run   *)
(* fails once, with that message and no per-item violation, and raises     *)
(* nothing.                                                                *)
(***************************************************************************)
C12_NonSequenceIsShapeError ==
  (RiskValidated /\ output.k # "list") =>
    /\ pc = "failed"
    /\ exit_status = 1
    /\ Len(stderr) = 1
    /\ stderr[1].kind = "shape" /\ stderr[1].stage = "risk"
    /\ stderr[1].items = <<>>

C12_Witness ==
  /\ RiskValidated
  /\ pc = "failed"
  /\ stderr[1].kind = "shape"
  /\ output.k = "dict"
  /\ "test_cases" \in Keys(output)
  /\ "req_id" \notin Keys(output)
  /\ Subscript(output, "test_cases").c[1].val = TcBogus

(***************************************************************************)
(* C13: in a Risk payload that is a sequence of entries (mappings) whose   *)
(* `test_cases` are sequences of test cases (mappings), every test case    *)
(* whose `type` is there and is not one of unit, integration, e2e,         *)
(* exploratory, non_functional makes the validator fail with exactly one   *)
(* violation for it, which reads `<tc_id or unknown>: invalid type         *)
(* '<the value>'`; and a test case whose `type` and `surface` are both     *)
(* there and in their enumerations (ui, api, service, workflow for the     *)
(* surface) adds no violation: the list holds one violation for each       *)
(* missing entry field and each missing or invalid `type` or `surface`,    *)
(* and nothing else.                                                       *)
(***************************************************************************)
TypeEnumeration == {"unit", "integration", "e2e", "exploratory", "non_functional"}
SurfaceEnumeration == {"ui", "api", "service", "workflow"}

\* a sequence of mappings whose `test_cases`, where present, are sequences
\* of mappings
EntriesAndTestCasesAreMappings(data) ==
  /\ data.k = "list"
  /\ \A i \in DOMAIN data.c :
        /\ data.c[i].val.k = "dict"
        /\ "test_cases" \in Keys(data.c[i].val) =>
              /\ Subscript(data.c[i].val, "test_cases").k = "list"
              /\ \A j \in DOMAIN Subscript(data.c[i].val, "test_cases").c :
                    Subscript(data.c[i].val, "test_cases").c[j].val.k = "dict"

\* the places <<i, j>> of the test cases of such a payload
TcPositions(data) ==
  UNION {{<<i, j>> : j \in DOMAIN Subscript(data.c[i].val, "test_cases").c} :
           i \in {k \in DOMAIN data.c : "test_cases" \in Keys(data.c[k].val)}}

TcAt(data, p) == Subscript(data.c[p[1]].val, "test_cases").c[p[2]].val

\* tc has the field f and its value is one of the names
Enumerated(tc, f, names) ==
  /\ f \in Keys(tc)
  /\ Subscript(tc, f).k = "str"
  /\ Len(Subscript(tc, f).s) = 1
  /\ Subscript(tc, f).s[1] \in names

\* the test cases with a `type` outside its enumeration
BadTypePositions(data) ==
  {p \in TcPositions(data) :
     "type" \in Keys(TcAt(data, p)) /\ ~Enumerated(TcAt(data, p), "type", TypeEnumeration)}

\* the violation that names the test case and its invalid `type`
InvalidTypeViolation(tc) ==
  (IF "tc_id" \in Keys(tc) THEN Render(Subscript(tc, "tc_id")) ELSE "unknown")
    \o ": invalid type '" \o Render(Subscript(tc, "type")) \o "'"

\* how many violations the payload holds: missing entry fields, and for
\* each test case a missing or invalid `type` and a missing or invalid
\* `surface`
ViolationCount(data) ==
  Cardinality({<<i, f>> \in (DOMAIN data.c)
                 \X {"req_id", "risk", "severity", "severity_locked", "test_cases"} :
                 f \notin Keys(data.c[i].val)})
  + Cardinality({p \in TcPositions(data) :
                   ~Enumerated(TcAt(data, p), "type", TypeEnumeration)})
  + Cardinality({p \in TcPositions(data) :
                   ~Enumerated(TcAt(data, p), "surface", SurfaceEnumeration)})

\* the violations the validator has reported
ReportedViolations ==
  IF pc = "failed" /\ Len(stderr) = 1 /\ stderr[1].kind = "validation"
  THEN stderr[1].items ELSE <<>>

EnumerationsReported ==
  /\ pc \in {"failed", "risk_save"}
  /\ pc = "failed" <=> ViolationCount(output) > 0
  /\ Len(ReportedViolations) = ViolationCount(output)
  /\ \A p \in BadTypePositions(output) :
        Count(InvalidTypeViolation(TcAt(output, p)), ReportedViolations)
          = Cardinality({q \in BadTypePositions(output) :
                           InvalidTypeViolation(TcAt(output, q))
                             = InvalidTypeViolation(TcAt(output, p))})

C13_EnumerationsChecked ==
  (RiskValidated /\ EntriesAndTestCasesAreMappings(output)) => EnumerationsReported

(***************************************************************************)
(* The part of C13 that holds: the same statement for the payloads in      *)
(* which no `type` and no `surface` is a sequence or a mapping.            *)
(***************************************************************************)
ScalarEnumerations(data) ==
  \A p \in TcPositions(data) :
     \A f \in {"type", "surface"} :
        f \in Keys(TcAt(data, p)) => Subscript(TcAt(data, p), f).k \notin {"list", "dict"}

ScalarEnumerationsChecked ==
  (RiskValidated /\ EntriesAndTestCasesAreMappings(output) /\ ScalarEnumerations(output))
    => EnumerationsReported

\* a payload of two test cases, the second with the type "bogus"
ScalarEnumerationsWitness ==
  /\ RiskValidated /\ EntriesAndTestCasesAreMappings(output)
  /\ TcPositions(output) = {<<1, 1>>, <<1, 2>>}
  /\ Enumerated(TcAt(output, <<1, 1>>), "type", TypeEnumeration)
  /\ Enumerated(TcAt(output, <<1, 1>>), "surface", SurfaceEnumeration)
  /\ "type" \in Keys(TcAt(output, <<1, 2>>))
  /\ Subscript(TcAt(output, <<1, 2>>), "type") = JStr(<<"bogus">>)
  /\ ReportedViolations = <<"TC2: invalid type 'bogus'">>

(***************************************************************************)
(* The Review validator on every document: the run is placed at the        *)
(* validation of the Review stage with an arbitrary cleaned document.      *)
(***************************************************************************)
\* the lines of a document: the four markers, a marker inside a deeper
\* heading, a marker with text before and after it, a marker in another
\* case, prose
ReviewLines ==
  {Line("## Purpose"), Line("## In Scope"), Line("## Out of Scope"),
   Line("## Review Decision"), Line("### Purpose"),
   Line("see ## In Scope below"), Line("## review decision"), Line("prose")}

\* the cleaned documents of at most n lines
ReviewDocuments(n) == SeqsUpTo(ReviewLines, n)

\* a Risk result the Risk stage has validated and saved
SampleRisk == JList(<<RiskEntry(RiskScalars, <<JList(<<TcValid>>)>>)>>)

InitReview ==
  /\ pc = "review_validate"
  /\ argv = <<SamplePrd>>
  /\ prd_path = SamplePrd
  /\ folder_name = stem(SamplePrd)
  /\ raw \in ReviewDocuments(MaxLines)
  /\ output = NoValue
  /\ intake_output = SampleIntake
  /\ risk_output = SampleRisk
  /\ disk = (intake_output_path(stem(SamplePrd)) :> json_dump(SampleIntake))
              @@ (risk_output_path(stem(SamplePrd)) :> json_dump(SampleRisk))
  /\ calls = <<UserMessage("intake", NoValue, NoValue, NoValue, NoValue, ""),
               RiskUserMessage(SampleIntake),
               ReviewUserMessage(SampleIntake, SampleRisk, stem(SamplePrd))>>
  /\ writes = <<"intake", "risk">>
  /\ stderr = <<>>
  /\ exit_status = -1

SpecReview == InitReview /\ [][ReviewValidate]_vars

\* the validator has run on the document in `raw`
ReviewValidated ==
  pc \in {"review_save", "failed"} /\ Len(calls) = 3 /\ writes = <<"intake", "risk">>

(***************************************************************************)
(* C14: the Review validator passes exactly when each of `## Purpose`,     *)
(* `## In Scope`, `## Out of Scope` and `## Review Decision` occurs        *)
(* somewhere in the document, in any order and with any text around; when  *)
(* it fails it fails once, and the markers it names are exactly those that *)
(* do not occur, each once (a document that lacks only `## Review          *)
(* Decision` fails naming that marker alone).                              *)
(***************************************************************************)
FourMarkers == {"## Purpose", "## In Scope", "## Out of Scope", "## Review Decision"}

\* the marker m is a piece of a line of the document
Occurs(m, doc) ==
  \E i \in DOMAIN doc :
     /\ doc[i].t = "line"
     /\ \E a \in 1..Len(doc[i].w) :
           /\ a + Len(m) - 1 <= Len(doc[i].w)
           /\ SubSeq(doc[i].w, a, a + Len(m) - 1) = m

C14_ReviewMarkers ==
  ReviewValidated =>
    LET absent == {m \in FourMarkers : ~Occurs(m, raw)}
    IN  /\ pc = "review_save" <=> absent = {}
        /\ pc = "review_save" => stderr = <<>>
        /\ pc = "failed" =>
              /\ Len(stderr) = 1
              /\ stderr[1].kind = "validation" /\ stderr[1].stage = "review"
              /\ Range(stderr[1].items) = absent
              /\ Len(stderr[1].items) = Cardinality(absent)
        /\ absent = {"## Review Decision"} =>
              pc = "failed" /\ stderr[1].items = <<"## Review Decision">>

C14_Witness ==
  /\ ReviewValidated
  /\ pc = "review_save"
  /\ raw = <<Line("## Review Decision"), Line("prose"), Line("## Out of Scope"),
             Line("see ## In Scope below"), Line("### Purpose")>>

(***************************************************************************)
(* The sanitizer on every text: the run is placed at the decode of the     *)
(* Intake stage with an arbitrary raw text.                                *)
(***************************************************************************)
SanitizerTokens == {Fence, JsonTag, Ws, Junk, Doc(SampleIntake)}

\* the raw texts of at most n tokens
RawTexts(n) == SeqsUpTo(SanitizerTokens, n)

InitSanitize ==
  /\ pc = "intake_parse"
  /\ argv = <<SamplePrd>>
  /\ prd_path = SamplePrd
  /\ folder_name = stem(SamplePrd)
  /\ raw \in RawTexts(MaxTokens)
  /\ output = NoValue
  /\ intake_output = NoValue
  /\ risk_output = NoValue
  /\ disk = EmptyDisk
  /\ calls = <<UserMessage("intake", NoValue, NoValue, NoValue, NoValue, "")>>
  /\ writes = <<>>
  /\ stderr = <<>>
  /\ exit_status = -1

SpecSanitize == InitSanitize /\ [][IntakeParse]_vars

\* parse_json_output has run on `raw`
Sanitized == pc \in {"intake_validate", "failed"} /\ Len(calls) = 1 /\ writes = <<>>

\* the text the decode was tried on: the one document that decodes to
\* `output`, or the text the Parse error shows
ObservedCleaned ==
  IF pc = "failed" THEN stderr[1].text ELSE <<Doc(output)>>

\* what the decode gave
ObservedDecode ==
  [ok |-> pc = "intake_validate", value |-> output, cleaned |-> ObservedCleaned]

\* what the decode of a text gives
DecodeOf(text) ==
  IF Len(text) = 1 /\ text[1].t = "doc"
  THEN [ok |-> TRUE, value |-> text[1].v, cleaned |-> text]
  ELSE [ok |-> FALSE, value |-> NoValue, cleaned |-> text]

NoFence(text) == \A i \in DOMAIN text : text[i].t # "fence"

\* the text is, between white space, a tagged fence, a payload that holds
\* no fence, and a closing fence
Fenced(text) ==
  /\ Len(strip(text)) >= 3
  /\ SubSeq(strip(text), 1, 2) = <<Fence, JsonTag>>
  /\ strip(text)[Len(strip(text))] = Fence
  /\ NoFence(SubSeq(strip(text), 3, Len(strip(text)) - 1))

\* the payload of a fenced text, with the white space around it
Payload(text) == SubSeq(strip(text), 3, Len(strip(text)) - 1)

(***************************************************************************)
(* C15: the decode of a payload wrapped in a leading tagged fence and a    *)
(* trailing fence, with any white space before, after and inside the       *)
(* fences, gives what the decode of the payload without fences gives (the  *)
(* same value, or the same Parse error on the same text); and on a text    *)
(* that holds no fence the sanitizer only trims the white space around it, *)
(* leaves a text that is already trimmed as it is, and would change        *)
(* nothing if it were applied again.                                       *)
(***************************************************************************)
C15_FenceTransparent ==
  Sanitized =>
    /\ Fenced(raw) => ObservedDecode = DecodeOf(strip(Payload(raw)))
    /\ NoFence(raw) =>
          /\ ObservedDecode = DecodeOf(strip(raw))
          /\ strip(raw) = raw => ObservedCleaned = raw
          /\ Cleaned(ObservedCleaned) = ObservedCleaned

C15_Witness ==
  /\ Sanitized
  /\ pc = "intake_validate"
  /\ raw = <<Ws, Fence, JsonTag, Ws, Doc(SampleIntake), Ws, Fence>>
  /\ output = SampleIntake

(***************************************************************************)
(* C16: the sanitizer takes at most one fence marker off the front of the  *)
(* trimmed raw text (the tagged marker or the generic one, never the two   *)
(* one after the other) and at most one off its end: the text the decode   *)
(* is tried on is the trimmed raw text less one such prefix and one such   *)
(* suffix, trimmed.                                                        *)
(***************************************************************************)
C16_AtMostOneMarkerEachSide ==
  Sanitized =>
    \E p \in {<<>>, <<Fence>>, <<Fence, JsonTag>>} : \E q \in {<<>>, <<Fence>>} :
       /\ Len(p) + Len(q) <= Len(strip(raw))
       /\ SubSeq(strip(raw), 1, Len(p)) = p
       /\ SubSeq(strip(raw), Len(strip(raw)) - Len(q) + 1, Len(strip(raw))) = q
       /\ strip(SubSeq(strip(raw), Len(p) + 1, Len(strip(raw)) - Len(q)))
            = ObservedCleaned

(***************************************************************************)
(* C17: every Intake artifact a run has written holds an IntakeResult: a   *)
(* mapping with `plan_context`, itself a mapping with `purpose`,           *)
(* `in_scope` and `out_of_scope`, and with `requirements`, a sequence      *)
(* whose every element is a mapping with `req_id`, `prd_ref` and           *)
(* `ambiguity_flags` - whatever value the Intake stage has decoded.        *)
(***************************************************************************)
C17_PersistedIntakeIsIntakeResult ==
  Wrote("intake") =>
    /\ intake_output_path(folder_name) \in DOMAIN disk
    /\ CompleteIntake(Persisted(intake_output_path(folder_name)))

(***************************************************************************)
(* C18: within one run each artifact is written at most once; a step       *)
(* writes a file only as the save of a stage, after the validator of that  *)
(* stage has passed what is written; and no step changes or removes an     *)
(* artifact this run has already written.                                  *)
(***************************************************************************)
WrittenOnce ==
  \A st \in Range(Stages) : Cardinality({i \in DOMAIN writes : writes[i] = st}) <= 1

WriteStep ==
  /\ (disk' # disk \/ writes' # writes) =>
        \E st \in Range(Stages) :
           /\ pc = st \o "_save"
           /\ writes' = Append(writes, st)
           /\ PassesChecks(st, disk'[ArtifactPath(st, folder_name)])
           /\ \A path \in DOMAIN disk :
                 path # ArtifactPath(st, folder_name) => disk'[path] = disk[path]
  /\ \A st \in Range(Stages) :
        Wrote(st) =>
          /\ ArtifactPath(st, folder_name) \in DOMAIN disk'
          /\ disk'[ArtifactPath(st, folder_name)] = disk[ArtifactPath(st, folder_name)]

C18_WriteOnce == []WrittenOnce /\ [][WriteStep]_vars

C18_Witness ==
  /\ pc = "done"
  /\ writes = Stages
  /\ Cardinality(DOMAIN disk) = 3
  /\ disk[intake_output_path(folder_name)] = json_dump(SampleIntake)
  /\ disk[risk_output_path(folder_name)] = json_dump(SampleRisk)
  /\ Len(disk[test_plan_path(folder_name)]) = 4

(***************************************************************************)
(* C19: the Gateway is called at most once for each stage, so at most      *)
(* three times in a run; a call that fails ends the run in that same step  *)
(* with a Transport error and exit status 1; and a run that has failed, in *)
(* a call, a decode or a validation, takes no further step, so it calls    *)
(* the Gateway no more.                                                    *)
(***************************************************************************)
CalledOncePerStage ==
  /\ Len(calls) <= 3
  /\ \A st \in Range(Stages) :
        Cardinality({i \in DOMAIN calls : calls[i].stage = st}) <= 1
  /\ \A st \in Range(Stages) :
        (FailedIn(st) /\ stderr[Len(stderr)].kind = "transport") =>
          /\ calls[Len(calls)].stage = st
          /\ exit_status = 1
          /\ Len(stderr) = 1

CallStep ==
  /\ calls' # calls =>
        /\ Len(calls') = Len(calls) + 1
        /\ SubSeq(calls', 1, Len(calls)) = calls
        /\ pc' # "failed" => pc' \in Range(ProgramOrder) /\ stderr' = <<>>
        /\ pc' = "failed" =>
              /\ stderr' = <<Diag("transport", calls'[Len(calls')].stage, <<>>, <<>>)>>
              /\ exit_status' = 1
  /\ (stderr' # stderr /\ stderr'[Len(stderr')].kind = "transport") => calls' # calls
  /\ pc \in {"failed", "crashed"} => UNCHANGED vars

C19_SingleAttempt == []CalledOncePerStage /\ [][CallStep]_vars

C19_Witness ==
  /\ pc = "failed"
  /\ stderr = <<Diag("transport", "risk", <<>>, <<>>)>>
  /\ CallStages = <<"intake", "risk">>
  /\ writes = <<"intake">>

(***************************************************************************)
(* C20: the message of the Risk stage's Gateway call carries exactly two   *)
(* values of the validated Intake result: its `requirements`, and the      *)
(* value under its key `project_context`, null when it has no such key.    *)
(* The `plan_context` is not in the message: for an Intake result that     *)
(* holds only the keys the validator asks for, the project context sent is *)
(* null.                                                                   *)
(***************************************************************************)
C20_RiskInput ==
  \A i \in DOMAIN calls :
     calls[i].stage = "risk" =>
       /\ intake_output.k = "dict"
       /\ {"plan_context", "requirements"} \subseteq Keys(intake_output)
       /\ calls[i].requirements = Subscript(intake_output, "requirements")
       /\ calls[i].project_context =
             (IF "project_context" \in Keys(intake_output)
              THEN Subscript(intake_output, "project_context") ELSE JNull)
       /\ calls[i].intake = NoValue /\ calls[i].risk = NoValue
       /\ calls[i].project_context # Subscript(intake_output, "plan_context")
       /\ Keys(intake_output) = {"plan_context", "requirements"} =>
             calls[i].project_context = JNull

C20_Witness ==
  /\ pc = "risk_parse"
  /\ Len(calls) = 2
  /\ Keys(intake_output) = {"plan_context", "requirements"}
  /\ Subscript(intake_output, "plan_context").k = "dict"
  /\ calls[2].project_context = JNull
  /\ Len(calls[2].requirements.c) = 1

====
